---- MODULE Spec2Model ----
(***************************************************************************)
(* Model of the bootc-image-builder integration-test harness:              *)
(*   - wait_ssh_ready      (vmtest/util.py, test/testutil.py)              *)
(*   - TestCase / gen_testcases (test/testcases.py)                        *)
(*   - build_images and its callers (test/test_build_disk.py)              *)
(*   - the VM handles QEMU and AWS (test/vm.py)                            *)
(* Strings are sequences of tokens ("/" and "+" are tokens of their own),  *)
(* so that concatenation, index('/') and split('+') are computed.          *)
(* Times are integer ticks of 0.05s (0.1s = 2 ticks, 0.35s = 7 ticks).     *)
(***************************************************************************)
EXTENDS Integers, Sequences, FiniteSets, TLC

VARIABLES
    wait,       \* the wait_ssh_ready call in progress (or the last one finished)
    prevWait,   \* summary of the call finished before it
    keyIn,      \* two test cases and the session they are evaluated in
    keyOut,     \* the output directories build_images computes for them
    session,    \* what is fixed for a test session: credentials, flags, hash seed
    files,      \* the files below shared_tmpdir, as <<directory, path>>
    call,       \* the build_images call in progress (or the last one finished)
    lastBuilt,  \* directory and type of the last complete single-type build
    finalizers, \* number of AMI deregistration callbacks registered
    ec2,        \* what exists in the cloud account: images, instances, groups
    vm,         \* a VM handle (QEMU or AWS) and the scope that uses it
    gen,        \* a gen_testcases argument and what the calls made with it returned
    origin,     \* the contents of the artifacts below shared_tmpdir: for each one
                \* the build that wrote it (kept where session.contents is set;
                \* elsewhere only the existence of a file is modelled, in files)
    config,     \* the build configuration being put together for a test case
    peer        \* a second test-runner worker: its build_images call, its hash seed

waitVars == <<wait, prevWait>>
keyVars == <<keyIn, keyOut, config>>
buildVars == <<session, files, call, lastBuilt, finalizers, origin, peer>>
vmVars == <<vm>>
genVars == <<gen>>
vars == <<wait, prevWait, keyIn, keyOut, session, files, call, lastBuilt, finalizers,
          ec2, vm, gen, origin, config, peer>>

(***************************************************************************)
(* Bounds                                                                  *)
(***************************************************************************)
MaxSleep == 2
MaxWaitSec == 11
MaxSeed == 1
HashMod == 65536
MaxCalls == 2
MaxEvents == 3

Ports == {22, 2222}

(***************************************************************************)
(* Strings                                                                 *)
(***************************************************************************)

\* every token the strings of the model are made of; a token's position is
\* its character code
Alphabet ==
    <<"/", "+", "quay.io", "centos-bootc", "centos-bootc:stream9",
      "centos-bootc:stream10", "fedora", "fedora-bootc:42", "fedora-bootc:43",
      "qcow2", "raw", "vmdk", "vhd", "gce", "ami", "anaconda-iso",
      "arm64", "ppc64le", "s390x", "btrfs", "lvm", "swap",
      "192.168.122.1:5000">>

Code(t) == CHOOSE k \in 1..Len(Alphabet) : Alphabet[k] = t

\* sep.join(parts), parts a sequence of one-token strings
RECURSIVE Join(_, _)
Join(parts, sep) ==
    IF Len(parts) = 0 THEN <<>>
    ELSE IF Len(parts) = 1 THEN <<parts[1]>>
    ELSE <<parts[1], sep>> \o Join(Tail(parts), sep)

\* s.index(t): position of the first t in s, 0 when there is none (ValueError)
Index(s, t) ==
    IF \E k \in 1..Len(s) : s[k] = t
    THEN CHOOSE k \in 1..Len(s) : s[k] = t /\ \A j \in 1..(k - 1) : s[j] # t
    ELSE 0

\* s.split(sep): the pieces between the separators, "" included
RECURSIVE Split(_, _)
Split(s, sep) ==
    LET k == Index(s, sep)
    IN IF k = 0 THEN <<s>>
       ELSE <<SubSeq(s, 1, k - 1)>> \o Split(SubSeq(s, k + 1, Len(s)), sep)

\* a piece of one token is the image type of that name
Atom(piece) == IF Len(piece) = 1 THEN piece[1] ELSE ""

\* hash(s) of the running interpreter: deterministic for one hash seed,
\* signed, different from one seed (process) to the next
RECURSIVE Mix(_, _)
Mix(h, s) ==
    IF Len(s) = 0 THEN h
    ELSE Mix((h * 33 + Code(s[1])) % HashMod, Tail(s))

hash(seed, s) ==
    LET h == Mix((5381 + 7919 * seed) % HashMod, s)
    IN IF h >= HashMod \div 2 THEN h - HashMod ELSE h

abs(n) == IF n < 0 THEN 0 - n ELSE n

\* format(n, "x"): the hexadecimal digits of n
RECURSIVE Hex(_)
Hex(n) == IF n < 16 THEN <<n>> ELSE Append(Hex(n \div 16), n % 16)

(***************************************************************************)
(* testcases.py                                                            *)
(***************************************************************************)

DISK_IMAGE_TYPES == <<"qcow2", "raw", "vmdk", "vhd", "gce">>

CLOUD_BOOT_IMAGE_TYPES == <<"ami">>

Range(seq) == {seq[k] : k \in 1..Len(seq)}

\* class TestCase: the dataclass defaults
TestCase ==
    [container_ref |-> <<>>, build_container_ref |-> <<>>, image |-> <<>>,
     target_arch |-> <<>>, rootfs |-> <<>>, sign |-> FALSE, disk_config |-> <<>>,
     use_librepo |-> FALSE, podman_terminal |-> FALSE]

TestCaseFedora ==
    [TestCase EXCEPT !.container_ref = <<"quay.io", "/", "fedora", "/", "fedora-bootc:42">>,
                     !.rootfs = <<"btrfs">>, !.use_librepo = TRUE]

TestCaseFedora43 ==
    [TestCase EXCEPT !.container_ref = <<"quay.io", "/", "fedora", "/", "fedora-bootc:43">>,
                     !.rootfs = <<"btrfs">>, !.use_librepo = TRUE]

\* BIB_TEST_BOOTC_CONTAINER_TAG unset
TestCaseC9S ==
    [TestCase EXCEPT !.container_ref = <<"quay.io", "/", "centos-bootc", "/", "centos-bootc:stream9">>,
                     !.use_librepo = TRUE] @@ [use_terminal |-> TRUE]

TestCaseC10S ==
    [TestCase EXCEPT !.container_ref = <<"quay.io", "/", "centos-bootc", "/", "centos-bootc:stream10">>,
                     !.use_librepo = TRUE]

Scenarios ==
    {"manifest", "default-rootfs", "ami-boot", "anaconda-iso", "qemu-cross",
     "qemu-boot", "all", "multidisk", "target-arch-smoke", "build-container"}

Machines == {"x86_64", "arm64", "aarch64"}

AllImages == CLOUD_BOOT_IMAGE_TYPES \o DISK_IMAGE_TYPES \o <<"anaconda-iso">>

\* the test cases of "qemu-cross" on a host whose platform.machine() is machine
qemu_cross_AnyHost(machine) ==
    <<[TestCaseC9S EXCEPT !.image = <<"raw">>, !.target_arch = <<"arm64">>]>>
qemu_cross(machine) ==
    IF machine = "x86_64"
    THEN <<[TestCaseC9S EXCEPT !.image = <<"raw">>, !.target_arch = <<"arm64">>]>>
    ELSE <<>>

\* raise ValueError(f"unknown test-case type {what}")
UnknownTestCase_EmptyList(what) ==
    [raised |-> "none", message |-> <<>>, value |-> <<>>]
UnknownTestCase(what) ==
    [raised |-> "ValueError",
     message |-> <<"unknown test-case type ">> \o <<what>>,
     value |-> <<>>]

\* gen_testcases(what) on a host whose platform.machine() is machine: the
\* list returned, or the ValueError raised for an unknown name
gen_testcases(what, machine) ==
  LET Return(list) == [raised |-> "none", message |-> <<>>, value |-> list] IN
    CASE what = "manifest" -> Return(<<TestCaseC9S, TestCaseFedora, TestCaseC10S>>)
      [] what = "default-rootfs" -> Return(<<TestCaseC9S>>)
      [] what = "ami-boot" -> Return(
           <<[TestCaseC9S EXCEPT !.image = <<"ami">>],
             [TestCaseFedora EXCEPT !.image = <<"ami">>]>>)
      [] what = "anaconda-iso" -> Return(
           <<[TestCaseC9S EXCEPT !.image = <<"anaconda-iso">>],
             [TestCaseC10S EXCEPT !.image = <<"anaconda-iso">>]>>)
      [] what = "qemu-cross" -> Return(qemu_cross(machine))
      [] what = "qemu-boot" -> Return(
           <<[TestCaseFedora EXCEPT !.image = <<"qcow2">>],
             [TestCaseC9S EXCEPT !.image = <<"qcow2">>, !.disk_config = <<"swap">>],
             [TestCaseFedora43 EXCEPT !.image = <<"raw">>, !.disk_config = <<"btrfs">>],
             [TestCaseC9S EXCEPT !.image = <<"raw">>, !.disk_config = <<"lvm">>]>>)
      [] what = "all" -> Return(
           [k \in 1..(2 * Len(AllImages)) |->
              IF k <= Len(AllImages)
              THEN [TestCaseC9S EXCEPT !.image = <<AllImages[k]>>]
              ELSE [TestCaseFedora EXCEPT !.image = <<AllImages[k - Len(AllImages)]>>]])
      [] what = "multidisk" -> Return(
           <<[TestCaseC9S EXCEPT !.image = Join(DISK_IMAGE_TYPES, "+")],
             [TestCaseFedora EXCEPT !.image = Join(DISK_IMAGE_TYPES, "+")]>>)
      [] what = "target-arch-smoke" -> Return(
           <<[TestCaseC9S EXCEPT !.target_arch = <<"arm64">>],
             [TestCaseFedora EXCEPT !.target_arch = <<"ppc64le">>],
             [TestCaseFedora EXCEPT !.target_arch = <<"s390x">>]>>)
      [] what = "build-container" -> Return(
           <<[TestCaseC9S EXCEPT
                 !.build_container_ref =
                     <<"quay.io", "/", "centos-bootc", "/", "centos-bootc:stream10">>,
                 !.image = <<"qcow2">>]>>)
      [] OTHER -> UnknownTestCase(what)

NoKey == [tc1 |-> TestCase, tc2 |-> TestCase, seed |-> 0, seed2 |-> 0]

NoOut == [done |-> FALSE, d1 |-> <<>>, d2 |-> <<>>, d1b |-> <<>>]

\* an account in which nothing has been created
\* no build configuration is being put together
NoConfig ==
    [pc |-> "none", tc |-> TestCase, customizations |-> <<>>, exc |-> "none",
     id |-> <<>>]

NoCloud == [images |-> {}, instances |-> {}, groups |-> {}]

\* what a force_stop call did, as its caller and the outside can tell
\*   again        it was called on a handle that a force_stop which returned
\*                had left not running
\*   had_group    the handle held a security group when it was called
\*   had_instance the handle held an instance when it was called
\*   requests     what it asked for: "kill", "terminate", "delete"
\*   order        the same requests in the order they were made
\*   termination  how lines 257-266 ended, "none" if they were skipped
\*   deletion     how lines 272-279 ended, "none" if they were not reached
\*   raised       the exception it ended with
\*   changed      a field of the handle, a process or the account changed
NoStop == [again |-> FALSE, had_group |-> FALSE, had_instance |-> FALSE,
           requests |-> {}, order |-> <<>>,
           termination |-> "none", deletion |-> "none", raised |-> "none",
           changed |-> FALSE]

\* VM.__init__, QEMU.__init__, AWS.__init__: the handle after construction.
\* None is 0 for _ssh_port and _qemu_p and "None" for the other fields.
\*   pc        "ready", or "waiting" while start() is blocked in its wait
\*   caller    the method that called start(): "start" or "run"
\*   scope     "none" (no with statement), "in" (in its body), "left"
\*   exc       the exception the last method call ended with
\*   observed  start() has seen the readiness signal of what the handle holds
\*   ingress   authorize_ingress went through for the group the handle holds
\*   polls     passes of the polling loop the wait in progress has made
\*   mon       the wait in progress has connected to the QMP socket
\*   events    QMP events the wait in progress has pulled and passed over
\*   procs     the emulator processes alive
\*   op, stop  the last method called and, for force_stop, what it did
NewVM(kind, scope) ==
    [kind |-> kind,
     ssh_port |-> IF kind = "AWS" THEN 22 ELSE 0,
     address |-> "None",
     qemu_p |-> 0,
     ec2_instance |-> "None",
     ec2_security_group |-> "None",
     pc |-> "ready", caller |-> "none", wait_event |-> "none",
     scope |-> scope, exc |-> "none", observed |-> FALSE, ingress |-> FALSE,
     polls |-> 0, mon |-> FALSE, events |-> 0,
     procs |-> {}, op |-> "init", stop |-> NoStop]

\* no VM handle constructed
NoVM == NewVM("none", "none")

\* no gen_testcases call made
NoGen == [what |-> "", machine |-> "", returns |-> <<>>]

\* the state of the specifications that use no cloud, no VM, no gen_testcases
VmUnused == vm = NoVM
GenUnused == gen = NoGen

(***************************************************************************)
(* test_build_disk.py: the state build_images works on                     *)
(***************************************************************************)

NoBuildError == [type |-> "none", what |-> "none", rc |-> 0]

\* no build_images call has been made
IdleCall ==
    [pc |-> "idle", tc |-> TestCase, image_types |-> <<>>, dir |-> <<>>,
     found |-> 0, results |-> <<>>, path |-> "none", error |-> NoBuildError,
     toolRuns |-> 0, rc |-> 0, produced |-> {}, upload |-> FALSE,
     wroteLogs |-> FALSE, registered |-> FALSE, test |-> "none",
     uploaded |-> FALSE, delAmiRan |-> FALSE, regular |-> TRUE,
     password |-> ""]

\* in IdleCall and in every call, regular is carried from call to call:
\* every request so far was a generated test case, no earlier call failed
\* and every run of the build tool so far exited 0 and left every artifact
\* it was asked for

NoBuilt == [set |-> FALSE, dir |-> <<>>, type |-> ""]

\* a second worker that has made no call
NoPeer == [call |-> IdleCall, seed |-> 0]

\* the build state of a specification that makes no build_images call
BuildUnused ==
    /\ session = [creds |-> FALSE, force_aws_upload |-> FALSE, seed |-> 0,
                  contents |-> FALSE]
    /\ files = {}
    /\ call = IdleCall
    /\ lastBuilt = NoBuilt
    /\ finalizers = 0
    /\ origin = <<>>
    /\ peer = NoPeer

(***************************************************************************)
(* wait_ssh_ready(address, port, sleep, max_wait_sec)                      *)
(***************************************************************************)

\* what one pass through the body of the with-block can meet
\*   refused          s.connect raises ConnectionRefusedError
\*   connect_timeout  s.connect raises TimeoutError
\*   reset            s.connect succeeds, s.recv raises ConnectionResetError
\*   recv_timeout     s.connect succeeds, s.recv raises TimeoutError
\*   not_ssh          s.recv returns data without b"OpenSSH"
\*   openssh          s.recv returns data with b"OpenSSH"
\*   oserror          an OSError the except clause does not name
Outcomes == {"refused", "connect_timeout", "reset", "recv_timeout",
             "not_ssh", "openssh", "oserror"}

\* the outcomes in which s.connect returned, i.e. the port accepted
Accepted == {"reset", "recv_timeout", "not_ssh", "openssh"}

\* except (ConnectionRefusedError, ConnectionResetError, TimeoutError): pass
Swallowed == {"refused", "connect_timeout", "reset", "recv_timeout"}

\* range(int(max_wait_sec / sleep))
RangeLen_OneMore(sleep, max_wait_sec) == (max_wait_sec \div sleep) + 1
RangeLen(sleep, max_wait_sec) == max_wait_sec \div sleep

\* if b"OpenSSH" in data
HasBanner_Never(outcome) == FALSE
HasBanner(outcome) == outcome = "openssh"

NoError == [type |-> "none", port |-> 0, max_wait_sec |-> 0]

\* ConnectionRefusedError(f"cannot connect to port {port} after {max_wait_sec}s")
BudgetError_ByCase(port, max_wait_sec) ==
    [type |-> IF wait.accepted THEN "ConnectionResetError" ELSE "ConnectionRefusedError",
     port |-> port, max_wait_sec |-> max_wait_sec]
BudgetError(port, max_wait_sec) ==
    [type |-> "ConnectionRefusedError", port |-> port, max_wait_sec |-> max_wait_sec]

IdleWait ==
    [pc |-> "idle", port |-> 0, sleep |-> 1, max_wait_sec |-> 0, i |-> 0,
     trace |-> <<>>, accepted |-> FALSE, replied |-> FALSE, last |-> "none",
     result |-> "none", error |-> NoError]

\* what a caller can observe of a finished call (its arguments, how it ended),
\* whether the port ever accepted a connection during it and whether it ever
\* answered with data that is not a banner
Observed(w) ==
    [port |-> w.port, max_wait_sec |-> w.max_wait_sec,
     result |-> w.result, error |-> w.error,
     accepted |-> w.accepted, replied |-> w.replied]

\* only calls that ran out of budget are kept for comparison with the next call
Summary(w) ==
    IF w.result = "raised" /\ w.error.type # "OSError" THEN Observed(w)
    ELSE Observed(IdleWait)

\* entry into the function: the arguments are bound, nothing has happened yet
wait_ssh_ready_call(port, sleep, max_wait_sec) ==
    /\ wait.pc \in {"idle", "done"}
    /\ prevWait' = Summary(wait)
    /\ wait' = [IdleWait EXCEPT !.pc = "loop", !.port = port, !.sleep = sleep,
                                !.max_wait_sec = max_wait_sec]
    /\ UNCHANGED <<keyVars, buildVars, ec2, vmVars, genVars>>

\* one connection attempt: socket(), settimeout, connect, recv, the test on data
wait_ssh_ready_attempt(outcome) ==
    /\ wait.pc = "loop"
    /\ wait.i < RangeLen(wait.sleep, wait.max_wait_sec)
    /\ LET w == [wait EXCEPT !.trace = Append(@, "attempt"),
                             !.accepted = @ \/ outcome \in Accepted,
                             !.replied = @ \/ outcome = "not_ssh",
                             !.last = outcome]
       IN wait' = CASE outcome \in Swallowed -> [w EXCEPT !.pc = "sleep"]
                    [] outcome = "oserror" ->
                         [w EXCEPT !.pc = "done", !.result = "raised",
                                   !.error = [type |-> "OSError", port |-> 0,
                                              max_wait_sec |-> 0]]
                    [] HasBanner(outcome) ->
                         [w EXCEPT !.pc = "done", !.result = "returned"]
                    [] OTHER -> [w EXCEPT !.pc = "sleep"]
    /\ UNCHANGED <<prevWait, keyVars, buildVars, ec2, vmVars, genVars>>

\* time.sleep(sleep) at the end of the loop body
wait_ssh_ready_sleep ==
    /\ wait.pc = "sleep"
    /\ wait' = [wait EXCEPT !.pc = "loop", !.i = @ + 1, !.last = "none",
                            !.trace = Append(@, "sleep")]
    /\ UNCHANGED <<prevWait, keyVars, buildVars, ec2, vmVars, genVars>>

\* the range is exhausted: raise ConnectionRefusedError
wait_ssh_ready_raise ==
    /\ wait.pc = "loop"
    /\ wait.i >= RangeLen(wait.sleep, wait.max_wait_sec)
    /\ wait' = [wait EXCEPT !.pc = "done", !.result = "raised",
                            !.error = BudgetError(wait.port, wait.max_wait_sec)]
    /\ UNCHANGED <<prevWait, keyVars, buildVars, ec2, vmVars, genVars>>

InitWait ==
    /\ wait = IdleWait
    /\ prevWait = Summary(IdleWait)
    /\ keyIn = NoKey
    /\ keyOut = NoOut
    /\ config = NoConfig
    /\ BuildUnused
    /\ ec2 = NoCloud
    /\ VmUnused
    /\ GenUnused

NextWait ==
    \/ \E port \in Ports, sleep \in 1..MaxSleep, max_wait_sec \in 0..MaxWaitSec :
          wait_ssh_ready_call(port, sleep, max_wait_sec)
    \/ \E outcome \in Outcomes : wait_ssh_ready_attempt(outcome)
    \/ wait_ssh_ready_sleep
    \/ wait_ssh_ready_raise

SpecWait == InitWait /\ [][NextWait]_vars

(***************************************************************************)
(* Claims about wait_ssh_ready                                             *)
(***************************************************************************)

\* number of entries of the trace that are equal to ev
Count(trace, ev) == Cardinality({k \in 1..Len(trace) : trace[k] = ev})

\* the trace is attempt, sleep, attempt, sleep, ... with n attempts and n sleeps
Alternates(trace, n) ==
    /\ Len(trace) = 2 * n
    /\ \A k \in 1..(2 * n) : trace[k] = IF k % 2 = 1 THEN "attempt" ELSE "sleep"

OutOfBudget(w) == w.result = "raised" /\ w.error.type = "ConnectionRefusedError"

\* C1: when every attempt fails the call makes exactly floor(max_wait_sec/sleep)
\* attempts, each followed by exactly one sleep, and only then raises
\* ConnectionRefusedError; until then a failed attempt is always followed by a
\* sleep and the error is never raised with attempts left.
C1_ExhaustsBudget ==
    /\ OutOfBudget(wait) =>
          \E n \in 0..wait.max_wait_sec :
             /\ n * wait.sleep <= wait.max_wait_sec
             /\ wait.max_wait_sec < (n + 1) * wait.sleep
             /\ Alternates(wait.trace, n)
    /\ (wait.pc = "sleep" /\ wait.last \in Swallowed \cup {"not_ssh"}) =>
          Count(wait.trace, "attempt") = Count(wait.trace, "sleep") + 1

\* three sleeps for 0.35/0.1
C1_Witness ==
    /\ OutOfBudget(wait)
    /\ wait.sleep = 2 /\ wait.max_wait_sec = 7
    /\ wait.trace = <<"attempt", "sleep", "attempt", "sleep", "attempt", "sleep">>

\* C2: the call returns normally at the first attempt, within the budget, whose
\* data contains "OpenSSH", whatever the earlier attempts met; after it returned
\* there is no further attempt and no further sleep of that call.
C2_ReturnsAtFirstBanner ==
    /\ [](/\ wait.last = "openssh" => wait.pc = "done" /\ wait.result = "returned"
          /\ wait.result = "returned" =>
                /\ wait.last = "openssh"
                /\ Count(wait.trace, "attempt") * wait.sleep <= wait.max_wait_sec
                /\ Count(wait.trace, "sleep") = Count(wait.trace, "attempt") - 1
                /\ wait.trace[Len(wait.trace)] = "attempt")
    /\ [][wait.result = "returned" =>
            (wait'.trace = wait.trace \/ (wait'.pc = "loop" /\ wait'.trace = <<>>))]_vars

\* returned at the third attempt after a refused and a wrong reply
C2_Witness ==
    /\ wait.result = "returned"
    /\ wait.accepted /\ wait.replied
    /\ Count(wait.trace, "attempt") = 3

\* C3 as stated: a wait that ran out of budget without the port ever accepting
\* a connection and one in which the port accepted and answered with something
\* that is no banner end in different error results.
C3_Distinguishes ==
    (/\ OutOfBudget(prevWait) /\ OutOfBudget(wait)
     /\ ~prevWait.accepted
     /\ wait.replied) => prevWait.error # wait.error

\* C3 amended: running out of budget always raises ConnectionRefusedError whose
\* message is made of the port and max_wait_sec only, so two waits with the same
\* port and max_wait_sec end in equal errors whether or not the port accepted.
C3_SameError ==
    /\ (wait.pc = "done" /\ wait.result = "raised" /\ wait.last # "oserror") =>
           wait.error.type = "ConnectionRefusedError"
    /\ (/\ OutOfBudget(prevWait) /\ wait.pc = "done" /\ wait.result = "raised"
        /\ wait.last # "oserror"
        /\ prevWait.port = wait.port
        /\ prevWait.max_wait_sec = wait.max_wait_sec) => prevWait.error = wait.error

C3_Witness ==
    /\ OutOfBudget(prevWait) /\ OutOfBudget(wait)
    /\ ~prevWait.accepted /\ wait.replied
    /\ prevWait.port = wait.port /\ prevWait.max_wait_sec = wait.max_wait_sec
    /\ wait.max_wait_sec >= wait.sleep
    /\ prevWait.error = wait.error

(***************************************************************************)
(* test_build_disk.py: the output directory of build_images                *)
(***************************************************************************)

\* registry_conf.local_registry
local_registry == <<"192.168.122.1:5000">>

\* get_signed_container_ref(local_registry, container_ref)
get_signed_container_ref(registry, container_ref) ==
    registry \o SubSeq(container_ref, Index(container_ref, "/"), Len(container_ref))

\* container_ref = tc.container_ref, replaced by the signed one if tc.sign
ContainerRef(tc) ==
    IF tc.sign THEN get_signed_container_ref(local_registry, tc.container_ref)
    ELSE tc.container_ref

\* the string that is hashed
\*   container_ref + str(tc.disk_config) + str(tc.target_arch)
HashedString_WithImage(tc) ==
    ContainerRef(tc) \o tc.disk_config \o tc.target_arch \o tc.image
HashedString(tc) == ContainerRef(tc) \o tc.disk_config \o tc.target_arch

\* output_path = shared_tmpdir / format(abs(hash(...)), "x"); the model names
\* the directory by the last path component
output_path(seed, tc) == Hex(abs(hash(seed, HashedString(tc))))

\* the test cases the build fixtures are parametrized with, and their signed
\* variants
BuildScenarios == {"ami-boot", "anaconda-iso", "qemu-cross", "qemu-boot", "all",
                   "multidisk", "build-container"}

BuildTestCases ==
    UNION {Range(gen_testcases(what, "x86_64").value) : what \in BuildScenarios}

KeyTestCases == BuildTestCases \cup {[tc EXCEPT !.sign = TRUE] : tc \in BuildTestCases}

InitKey ==
    /\ keyIn \in [tc1 : KeyTestCases, tc2 : KeyTestCases,
                   seed : 0..MaxSeed, seed2 : 0..MaxSeed]
    /\ keyOut = NoOut
    /\ config = NoConfig
    /\ wait = IdleWait
    /\ prevWait = Summary(IdleWait)
    /\ BuildUnused
    /\ ec2 = NoCloud
    /\ VmUnused
    /\ GenUnused

\* both calls of build_images get as far as output_path.mkdir(), and so does
\* a call for the first test case made in another test-runner process, whose
\* interpreter has the hash seed seed2
ComputeOutputPaths ==
    /\ ~keyOut.done
    /\ keyOut' = [done |-> TRUE,
                  d1 |-> output_path(keyIn.seed, keyIn.tc1),
                  d2 |-> output_path(keyIn.seed, keyIn.tc2),
                  d1b |-> output_path(keyIn.seed2, keyIn.tc1)]
    /\ UNCHANGED <<keyIn, config, waitVars, buildVars, ec2, vmVars, genVars>>

NextKey == ComputeOutputPaths

SpecKey == InitKey /\ [][NextKey]_vars

\* the three values the cache key is made of
KeyTriple(tc) == <<ContainerRef(tc), tc.disk_config, tc.target_arch>>

ImageTypes(tc) == [k \in 1..Len(Split(tc.image, "+")) |-> Atom(Split(tc.image, "+")[k])]

\* C4: the output directory is a function of (container reference after the
\* signing substitution, disk_config, target_arch) alone: two test cases equal
\* in these three get the same directory whatever their image types are, a
\* multidisk request and a single disk type request in particular.
C4_DirFromSourceOnly ==
    (keyOut.done /\ KeyTriple(keyIn.tc1) = KeyTriple(keyIn.tc2)) =>
        keyOut.d1 = keyOut.d2

C4_Witness ==
    /\ keyOut.done
    /\ keyIn.tc1.image = Join(DISK_IMAGE_TYPES, "+")
    /\ ImageTypes(keyIn.tc2) = <<"vmdk">>
    /\ keyIn.tc1.sign /\ keyIn.tc2.sign
    /\ KeyTriple(keyIn.tc1) = KeyTriple(keyIn.tc2)
    /\ keyOut.d1 = keyOut.d2

(***************************************************************************)
(* test_build_disk.py: build_images                                        *)
(***************************************************************************)

MaxRc == 1
MaxFinalizers == 1
MaxImages == 1

\* artifact[image_type], relative to output_path, as <<directory, basename>>
artifact(image_type) ==
    CASE image_type = "qcow2" -> <<"qcow2", "disk.qcow2">>
      [] image_type = "ami" -> <<"image", "disk.raw">>
      [] image_type = "raw" -> <<"image", "disk.raw">>
      [] image_type = "vmdk" -> <<"vmdk", "disk.vmdk">>
      [] image_type = "vhd" -> <<"vpc", "disk.vhd">>
      [] image_type = "gce" -> <<"gce", "image.tar.gz">>
      [] image_type = "anaconda-iso" -> <<"bootiso", "install.iso">>

journal_log_path == <<"", "journal.log">>
bib_output_path == <<"", "bib-output.log">>
ssh_keyfile_private_path == <<"", "ssh-keyfile">>
config_json_path == <<"", "config.json">>

Exists(dir, path) == <<dir, path>> \in files

\* the image types of the request whose artifact the cache loop finds, in
\* request order; cloud boot types are skipped
CachedTypes_NoExistsTest(dir, image_types) ==
    SelectSeq(image_types, LAMBDA t : t \notin Range(CLOUD_BOOT_IMAGE_TYPES))
RECURSIVE CachedTypes(_, _)
CachedTypes(dir, image_types) ==
    IF Len(image_types) = 0 THEN <<>>
    ELSE LET t == image_types[1]
             rest == CachedTypes(dir, Tail(image_types))
         IN IF t \in Range(CLOUD_BOOT_IMAGE_TYPES) THEN rest
            ELSE IF Exists(dir, artifact(t)) THEN <<t>> \o rest
            ELSE rest

\* ImageBuildResult(image_type, artifact[image_type], tc.target_arch, ...)
ImageBuildResult(image_type, dir, tc, password, ami_id) ==
    [img_type |-> image_type,
     img_path |-> <<dir, artifact(image_type)>>,
     img_arch |-> tc.target_arch,
     container_ref |-> ContainerRef(tc),
     build_container_ref |-> tc.build_container_ref,
     rootfs |-> tc.rootfs,
     disk_config |-> tc.disk_config,
     username |-> "test",
     password |-> password,
     ami_id |-> ami_id]

\* one result per entry of types, in the order of types
Results_Reversed(types, dir, tc, password, ami_id) ==
    [k \in 1..Len(types) |->
        ImageBuildResult(types[Len(types) + 1 - k], dir, tc, password, ami_id)]
Results(types, dir, tc, password, ami_id) ==
    [k \in 1..Len(types) |-> ImageBuildResult(types[k], dir, tc, password, ami_id)]

\* testutil.write_aws_creds(path): are both environment variables set
write_aws_creds_Always == TRUE
write_aws_creds == session.creds

\* all disk-image types can be generated via a single build
types_arg_OnlyFirst(image_types) == <<image_types[1]>>
types_arg(image_types) ==
    IF image_types[1] \in Range(DISK_IMAGE_TYPES) THEN DISK_IMAGE_TYPES
    ELSE <<image_types[1]>>

\* assert rc == 0
RcFails_Never(rc) == FALSE
RcFails(rc) == rc # 0

\* maybe_create_disk_customizations raises ValueError for these
UnsupportedDiskConfig(tc) ==
    tc.disk_config \notin {<<>>, <<"lvm">>, <<"btrfs">>, <<"swap">>}

\* the requests made of build_images: test cases of the generated scenarios
\* that share the directory of the CentOS Stream 9 image, one of another
\* directory, and the three-type request of the end-to-end scenario
RequestPool ==
    {tc \in Range(gen_testcases("multidisk", "x86_64").value) :
             tc.container_ref = TestCaseC9S.container_ref}
    \cup Range(gen_testcases("ami-boot", "x86_64").value)
    \cup Range(gen_testcases("build-container", "x86_64").value)
    \cup {tc \in Range(gen_testcases("all", "x86_64").value) :
             tc.container_ref = TestCaseC9S.container_ref /\ tc.image \in {<<"qcow2">>, <<"raw">>}}
    \cup {[TestCaseC9S EXCEPT !.image = Join(<<"qcow2", "raw", "vmdk">>, "+")]}

\* the test cases gen_testcases returns for some scenario
Generated ==
    UNION {Range(gen_testcases(what, "x86_64").value) : what \in Scenarios}

\* image_types and output_path of every request of the pool, for every seed
RequestTypes == [tc \in RequestPool |-> ImageTypes(tc)]

RequestDir == [seed \in 0..MaxSeed |-> [tc \in RequestPool |-> output_path(seed, tc)]]

\* password = "".join(random.choices(string.ascii_uppercase + string.digits, k=18)):
\* the passwords a call can draw
Passwords == {"pw1", "pw2"}

\* what the build tool was given when it wrote an artifact: the user of
\* config.json (lines 350-384) and the arguments of the command line that
\* come from the test case (lines 398-460)
BuildOf(tc, password, upload) ==
    [username |-> "test", password |-> password,
     build_container_ref |-> tc.build_container_ref,
     rootfs |-> tc.rootfs,
     use_librepo |-> tc.use_librepo,
     upload |-> upload]

\* whether a call must wait before it checks the cache of dir: lines 300-347
\* take no lock and test nothing but the artifacts, whatever another worker
\* is doing in the directory
Locked_WhilePeerBuilds(dir) == peer.call.pc = "build" /\ peer.call.dir = dir

Locked(dir) == FALSE

\* lines 254-345: the cache check, ssh-keygen, the consistency assertion and
\* the yield of cached results
build_images_enter(tc, password) ==
    /\ call.pc \in {"idle", "done", "failed"}
    /\ finalizers = 0
    /\ ~Locked(RequestDir[session.seed][tc])
    /\ LET image_types == RequestTypes[tc]
           dir == RequestDir[session.seed][tc]
           cached == CachedTypes(dir, image_types)
           c == [IdleCall EXCEPT !.tc = tc, !.image_types = image_types,
                                 !.dir = dir, !.found = Len(cached),
                                 !.password = password,
                                 !.regular = /\ call.regular
                                             /\ call.pc # "failed"
                                             /\ tc \in Generated]
       IN IF Len(cached) > 0 /\ ~(Exists(dir, journal_log_path) /\ Exists(dir, bib_output_path))
          THEN \* journal_log_path.read_text raises
               /\ call' = [c EXCEPT !.pc = "failed",
                                    !.error = [type |-> "FileNotFoundError",
                                               what |-> "log", rc |-> 0]]
               /\ UNCHANGED files
          ELSE /\ files' = files \cup {<<dir, ssh_keyfile_private_path>>}
               /\ call' =
                    IF Len(cached) > 0 /\ Len(cached) # Len(image_types)
                    THEN [c EXCEPT !.pc = "failed",
                                   !.error = [type |-> "AssertionError",
                                              what |-> "unexpected number of results",
                                              rc |-> 0]]
                    ELSE IF Len(cached) > 0
                    THEN [c EXCEPT !.pc = "yielded", !.path = "cache",
                                   !.results = Results(cached, dir, tc, password, "none")]
                    ELSE [c EXCEPT !.pc = "build"]
    /\ UNCHANGED <<session, lastBuilt, finalizers, ec2, origin, peer,
                   waitVars, keyVars, vmVars, genVars>>

\* lines 347-497: the configuration, the run of the build tool, the journal,
\* the AMI id and its finalizer, the logs and the yield of fresh results.
\* rc and produced are what the build tool does: its return code and the
\* image types (among those asked for) whose artifact it leaves in /output;
\* uploaded is whether it registered the image in the cloud; ami_line is
\* whether the journal read back has an "AMI registered: ami-...\n" line.
build_images_build(rc, produced, uploaded, ami_line) ==
    /\ call.pc = "build"
    /\ LET tc == call.tc
           image_types == call.image_types
           dir == call.dir
           wants_ami == "ami" \in Range(image_types)
           upload == wants_ami /\ write_aws_creds
           fail(c, type, what, code) ==
               [c EXCEPT !.pc = "failed",
                         !.error = [type |-> type, what |-> what, rc |-> code]]
           ran == [call EXCEPT !.toolRuns = 1, !.rc = rc, !.produced = produced,
                               !.upload = upload, !.uploaded = uploaded,
                               !.regular = /\ call.regular
                                           /\ rc = 0
                                           /\ produced = Range(types_arg(image_types))]
           cloud == IF uploaded
                    THEN [ec2 EXCEPT !.images = @ \cup {"ami-1"}]
                    ELSE ec2
           made == {<<dir, artifact(t)>> : t \in produced}
           written == [f \in made \cup DOMAIN origin |->
                         IF f \in made THEN BuildOf(tc, call.password, upload)
                         ELSE origin[f]]
       IN /\ produced \subseteq Range(types_arg(image_types))
          /\ upload => finalizers < MaxFinalizers
          /\ uploaded => upload /\ Cardinality(ec2.images) < MaxImages
          /\ (upload /\ ami_line) => uploaded
          /\ IF UnsupportedDiskConfig(tc)
             THEN /\ call' = fail(call, "ValueError", "unsupported disk_config", 0)
                  /\ UNCHANGED <<files, finalizers, ec2, origin>>
             ELSE IF wants_ami /\ ~write_aws_creds /\ session.force_aws_upload
             THEN /\ call' = fail(call, "RuntimeError", "AWS credentials not available", 0)
                  /\ files' = files \cup {<<dir, config_json_path>>}
                  /\ UNCHANGED <<finalizers, ec2, origin>>
             ELSE IF RcFails(rc)
             THEN /\ call' = fail(ran, "AssertionError", "return code", rc)
                  /\ files' = files \cup {<<dir, config_json_path>>} \cup made
                  /\ ec2' = cloud
                  /\ origin' = IF session.contents THEN written ELSE origin
                  /\ UNCHANGED finalizers
             ELSE IF upload /\ ~ami_line
             THEN \* parse_ami_id_from_log: assert len(ami_ids) > 0
                  /\ call' = fail(ran, "AssertionError", "no ami id", 0)
                  /\ files' = files \cup {<<dir, config_json_path>>} \cup made
                  /\ ec2' = cloud
                  /\ origin' = IF session.contents THEN written ELSE origin
                  /\ UNCHANGED finalizers
             ELSE /\ call' = [ran EXCEPT
                                !.pc = "yielded", !.path = "fresh",
                                !.registered = upload,
                                !.wroteLogs = TRUE,
                                !.results = Results(image_types, dir, tc, call.password,
                                                    IF upload THEN "ami-1" ELSE "none")]
                  /\ files' = files \cup {<<dir, config_json_path>>} \cup made
                                    \cup {<<dir, journal_log_path>>, <<dir, bib_output_path>>}
                  /\ ec2' = cloud
                  /\ origin' = IF session.contents THEN written ELSE origin
                  /\ finalizers' = IF upload THEN finalizers + 1 ELSE finalizers
    /\ lastBuilt' = NoBuilt
    /\ UNCHANGED <<session, peer, waitVars, keyVars, vmVars, genVars>>

\* the body of the test that uses the fixture: test_ami_boots_in_aws for an
\* ami request, for the others the assertion that the output file exists
test_body ==
    /\ call.pc = "yielded"
    /\ call.test = "none"
    /\ call' = [call EXCEPT !.test =
                  IF "ami" \in Range(call.image_types)
                  THEN IF ~write_aws_creds
                       THEN IF session.force_aws_upload THEN "error" ELSE "skipped"
                       ELSE "ran"
                  ELSE IF \A k \in 1..Len(call.results) :
                             call.results[k].img_path \in files
                       THEN "passed" ELSE "failed"]
    /\ UNCHANGED <<session, files, lastBuilt, finalizers, ec2, origin, peer,
                   waitVars, keyVars, vmVars, genVars>>

\* lines 499-513: after the yield of fresh results, every requested artifact
\* that still exists is removed if its file system is low on space; low is
\* the set of requested types for which disk_usage.free < 1_000_000_000.
\* After the yield of cached results the generator just returns.
build_images_resume(low) ==
    /\ call.pc = "yielded"
    /\ call.test # "none"
    /\ low \subseteq Range(call.image_types)
    /\ call.path = "cache" => low = {}
    /\ call' = [call EXCEPT !.pc = "done"]
    /\ files' = files \ {<<call.dir, artifact(t)>> : t \in low}
    /\ lastBuilt' =
          IF call.path = "cache" THEN lastBuilt
          ELSE IF /\ Len(call.image_types) = 1
                  /\ call.image_types[1] \in Range(DISK_IMAGE_TYPES)
                  /\ call.produced = Range(types_arg(call.image_types))
               THEN [set |-> TRUE, dir |-> call.dir, type |-> call.image_types[1]]
               ELSE NoBuilt
    /\ origin' = [f \in DOMAIN origin \cap files' |-> origin[f]]
    /\ UNCHANGED <<session, finalizers, ec2, peer, waitVars, keyVars, vmVars, genVars>>

\* testutil.deregister_ami(ami_id): the image is gone if ami.deregister()
\* went through; a ClientError is printed and swallowed
deregister_ami(ok) == ok

\* the finalizer build_images registered, run by pytest when the fixture is
\* torn down, after the generator has returned:
\*   def del_ami(): testutil.deregister_ami(metadata["ami_id"])
\* deregister_ami prints and swallows a ClientError; ok is whether
\* ami.deregister() went through
del_ami(ok) ==
    /\ call.pc = "done"
    /\ finalizers > 0
    /\ finalizers' = finalizers - 1
    /\ call' = [call EXCEPT !.delAmiRan = TRUE]
    /\ ec2' = IF deregister_ami(ok)
              THEN [ec2 EXCEPT !.images = @ \ {call.results[1].ami_id}]
              ELSE ec2
    /\ UNCHANGED <<session, files, lastBuilt, origin, peer,
                   waitVars, keyVars, vmVars, genVars>>

InitBuild ==
    /\ session \in [creds : BOOLEAN, force_aws_upload : BOOLEAN, seed : {0},
                   contents : {FALSE}]
    /\ files = {}
    /\ call = IdleCall
    /\ lastBuilt = NoBuilt
    /\ finalizers = 0
    /\ origin = <<>>
    /\ peer = NoPeer
    /\ wait = IdleWait
    /\ prevWait = Summary(IdleWait)
    /\ keyIn = NoKey
    /\ keyOut = NoOut
    /\ config = NoConfig
    /\ ec2 = NoCloud
    /\ VmUnused
    /\ GenUnused

\* where the contents of the artifacts are not kept, the value of the
\* password decides nothing and one value stands for every draw
DrawnPasswords == IF session.contents THEN Passwords ELSE {"pw1"}

NextBuild ==
    \/ \E tc \in RequestPool, password \in DrawnPasswords : build_images_enter(tc, password)
    \/ \E rc \in 0..MaxRc, uploaded \in BOOLEAN, ami_line \in BOOLEAN :
          \E produced \in (IF call.pc = "build"
                           THEN SUBSET Range(types_arg(call.image_types))
                           ELSE {{}}) :
             build_images_build(rc, produced, uploaded, ami_line)
    \/ test_body
    \/ \E low \in SUBSET Range(call.image_types) : build_images_resume(low)
    \/ \E ok \in BOOLEAN : del_ami(ok)

SpecBuild == InitBuild /\ [][NextBuild]_vars

\* ---------------------------------------------------------------------------
\* The same calls with the contents of the artifacts kept: what a cached
\* artifact was built from is in origin.

\* the requests for a local disk image of the CentOS Stream 9 container
\* without a disk configuration: they all have one output directory
ContentsPool ==
    {tc \in RequestPool : /\ tc.container_ref = TestCaseC9S.container_ref
                          /\ tc.disk_config = <<>>
                          /\ tc.image \in {<<"qcow2">>, <<"raw">>}}

InitContents ==
    /\ session \in [creds : {FALSE}, force_aws_upload : {FALSE}, seed : {0},
                   contents : {TRUE}]
    /\ files = {}
    /\ call = IdleCall
    /\ lastBuilt = NoBuilt
    /\ finalizers = 0
    /\ origin = <<>>
    /\ peer = NoPeer
    /\ wait = IdleWait
    /\ prevWait = Summary(IdleWait)
    /\ keyIn = NoKey
    /\ keyOut = NoOut
    /\ config = NoConfig
    /\ ec2 = NoCloud
    /\ VmUnused
    /\ GenUnused

NextContents ==
    \/ \E tc \in ContentsPool, password \in DrawnPasswords : build_images_enter(tc, password)
    \/ \E rc \in 0..MaxRc, uploaded \in BOOLEAN, ami_line \in BOOLEAN :
          \E produced \in (IF call.pc = "build"
                           THEN SUBSET Range(types_arg(call.image_types))
                           ELSE {{}}) :
             build_images_build(rc, produced, uploaded, ami_line)
    \/ test_body
    \/ \E low \in SUBSET Range(call.image_types) : build_images_resume(low)

SpecContents == InitContents /\ [][NextContents]_vars

\* ---------------------------------------------------------------------------
\* Two workers of one test session.  conftest.py, lines 25-29: the shared
\* directory is the parent of the workers' base directories, so every worker
\* process computes its output directories below the same place; each worker
\* is a process with its own interpreter, and so with its own hash seed.
\* call is the call of the worker that has the processor, peer the other
\* worker's.

\* the requests the two workers make: the qcow2 image of one container
RacePool == {tc \in RequestPool : tc.image = <<"qcow2">>}

\* the processor goes from one worker to the other, between two steps of
\* their calls
worker_switch ==
    /\ call' = peer.call
    /\ session' = [session EXCEPT !.seed = peer.seed]
    /\ peer' = [call |-> call, seed |-> session.seed]
    /\ UNCHANGED <<files, lastBuilt, finalizers, origin, ec2,
                   waitVars, keyVars, vmVars, genVars>>

InitRace ==
    /\ session \in [creds : {FALSE}, force_aws_upload : {FALSE}, seed : 0..MaxSeed,
                   contents : {FALSE}]
    /\ peer \in [call : {IdleCall}, seed : 0..MaxSeed]
    /\ files = {}
    /\ call = IdleCall
    /\ lastBuilt = NoBuilt
    /\ finalizers = 0
    /\ origin = <<>>
    /\ wait = IdleWait
    /\ prevWait = Summary(IdleWait)
    /\ keyIn = NoKey
    /\ keyOut = NoOut
    /\ config = NoConfig
    /\ ec2 = NoCloud
    /\ VmUnused
    /\ GenUnused

\* each worker runs one test, which makes one call of build_images
NextRace ==
    \/ /\ call.pc = "idle"
       /\ \E tc \in RacePool, password \in DrawnPasswords : build_images_enter(tc, password)
    \/ \E rc \in 0..MaxRc, uploaded \in BOOLEAN, ami_line \in BOOLEAN :
          \E produced \in (IF call.pc = "build"
                           THEN SUBSET Range(types_arg(call.image_types))
                           ELSE {{}}) :
             build_images_build(rc, produced, uploaded, ami_line)
    \/ test_body
    \/ \E low \in SUBSET Range(call.image_types) : build_images_resume(low)
    \/ worker_switch

SpecRace == InitRace /\ [][NextRace]_vars

\* ---------------------------------------------------------------------------
\* The build configuration: test_build_disk.py, lines 350-381, and
\* testutil.py, lines 112-196.  cfg["customizations"] is modelled as a
\* function from its keys; of each value the model keeps the names that tell
\* the entries apart (the users, the mount points, the partition types).

\* lines 350-379: cfg as build_images writes it down
BaseCustomizations ==
    [key \in {"user", "kernel", "files", "directories"} |->
        CASE key = "user" -> <<"root", "test">>
          [] key = "kernel" -> <<"append">>
          [] key = "files" -> <<"/etc/some-file">>
          [] key = "directories" -> <<"/etc/some-dir">>]

\* cfg["customizations"][key] = value
SetItem(c, key, value) ==
    [k \in DOMAIN c \cup {key} |-> IF k = key THEN value ELSE c[k]]

\* testutil.py, lines 112-143; the result is cfg["customizations"] afterwards
maybe_create_filesystem_customizations_Always(c, tc) ==
    IF tc.rootfs = <<"btrfs">>
    THEN SetItem(c, "filesystem", <<"/">>)
    ELSE SetItem(c, "filesystem", <<"/", "/var/data", "/var/data/test", "/var/opt">>)

maybe_create_filesystem_customizations(c, tc) ==
    IF tc.disk_config # <<>> THEN c
    ELSE IF tc.rootfs = <<"btrfs">>
    THEN SetItem(c, "filesystem", <<"/">>)
    ELSE SetItem(c, "filesystem", <<"/", "/var/data", "/var/data/test", "/var/opt">>)

\* testutil.py, lines 146-196: [raised, value], value being
\* cfg["customizations"] afterwards
maybe_create_disk_customizations(c, tc) ==
    IF tc.disk_config = <<>> THEN [raised |-> FALSE, value |-> c]
    ELSE IF tc.disk_config = <<"lvm">>
    THEN [raised |-> FALSE, value |-> SetItem(c, "disk", <<"lvm">>)]
    ELSE IF tc.disk_config = <<"btrfs">>
    THEN [raised |-> FALSE, value |-> SetItem(c, "disk", <<"btrfs">>)]
    ELSE IF tc.disk_config = <<"swap">>
    THEN [raised |-> FALSE, value |-> SetItem(c, "disk", <<"swap">>)]
    ELSE [raised |-> TRUE, value |-> c]

\* the test cases a configuration is made for: the generated ones, and the
\* same with a disk_config that testutil does not know
ConfigTestCases ==
    BuildTestCases \cup {[tc EXCEPT !.disk_config = <<"zfs">>] : tc \in BuildTestCases}

\* test_build_disk.py, line 380
config_filesystem ==
    /\ config.pc = "cfg"
    /\ config' = [config EXCEPT
                    !.pc = "filesystem",
                    !.customizations =
                        maybe_create_filesystem_customizations(config.customizations,
                                                               config.tc)]
    /\ UNCHANGED <<keyIn, keyOut, waitVars, buildVars, ec2, vmVars, genVars>>

\* test_build_disk.py, line 381
config_disk ==
    /\ config.pc = "filesystem"
    /\ LET r == maybe_create_disk_customizations(config.customizations, config.tc)
       IN config' = [config EXCEPT
                       !.pc = IF r.raised THEN "raised" ELSE "disk",
                       !.exc = IF r.raised THEN "ValueError" ELSE "none",
                       !.customizations = r.value]
    /\ UNCHANGED <<keyIn, keyOut, waitVars, buildVars, ec2, vmVars, genVars>>

InitConfig ==
    /\ config \in [pc : {"cfg"}, tc : ConfigTestCases,
                  customizations : {BaseCustomizations}, exc : {"none"},
                  id : {<<>>}]
    /\ keyIn = NoKey
    /\ keyOut = NoOut
    /\ wait = IdleWait
    /\ prevWait = Summary(IdleWait)
    /\ BuildUnused
    /\ ec2 = NoCloud
    /\ VmUnused
    /\ GenUnused

NextConfig == config_filesystem \/ config_disk

SpecConfig == InitConfig /\ [][NextConfig]_vars

\* ---------------------------------------------------------------------------
\* The test-case id: testcases.py, lines 40-45, and conftest.py, lines 19-22.

\* the members of a test case that are neither private nor callable: the
\* dataclass fields, and of them the ones declared bool
DataFields(tc) == DOMAIN tc

BoolFields == {"sign", "use_librepo", "podman_terminal", "use_terminal"}

\* the characters of the field names, in the order of their code points
Letters ==
    <<"_", "a", "b", "c", "d", "e", "f", "g", "h", "i", "j", "k", "l", "m", "n", "o", "p", "q", "r", "s", "t", "u", "v", "w", "x", "y", "z">>

Ord(c) == CHOOSE k \in 1..Len(Letters) : Letters[k] = c

Spelling(name) ==
    CASE name = "container_ref" ->
               <<"c", "o", "n", "t", "a", "i", "n", "e", "r", "_", "r", "e", "f">>
          [] name = "build_container_ref" ->
               <<"b", "u", "i", "l", "d", "_", "c", "o", "n", "t", "a", "i", "n", "e", "r", "_", "r", "e", "f">>
          [] name = "image" ->
               <<"i", "m", "a", "g", "e">>
          [] name = "target_arch" ->
               <<"t", "a", "r", "g", "e", "t", "_", "a", "r", "c", "h">>
          [] name = "rootfs" ->
               <<"r", "o", "o", "t", "f", "s">>
          [] name = "sign" ->
               <<"s", "i", "g", "n">>
          [] name = "disk_config" ->
               <<"d", "i", "s", "k", "_", "c", "o", "n", "f", "i", "g">>
          [] name = "use_librepo" ->
               <<"u", "s", "e", "_", "l", "i", "b", "r", "e", "p", "o">>
          [] name = "podman_terminal" ->
               <<"p", "o", "d", "m", "a", "n", "_", "t", "e", "r", "m", "i", "n", "a", "l">>
          [] name = "use_terminal" ->
               <<"u", "s", "e", "_", "t", "e", "r", "m", "i", "n", "a", "l">>

\* a < b for two str
StrLess(a, b) ==
    \E k \in 1..(Len(a) + 1) :
        /\ k <= Len(b)
        /\ \A j \in 1..(k - 1) : a[j] = b[j]
        /\ k <= Len(a) => Ord(a[k]) < Ord(b[k])

\* inspect.getmembers(self) returns the members sorted by name
RECURSIVE SortedNames(_)
SortedNames(S) ==
    IF S = {} THEN <<>>
    ELSE LET first == CHOOSE x \in S :
                         \A y \in S \ {x} : StrLess(Spelling(x), Spelling(y))
         IN <<first>> \o SortedNames(S \ {first})

getmembers(tc) == SortedNames(DataFields(tc))

\* "and attr": the truth value of a member
Truthy(name, attr) == IF name \in BoolFields THEN attr ELSE attr # <<>>

\* f"{name}={attr}"
NameValue(name, attr) ==
    <<name, "=">> \o (IF name \in BoolFields
                      THEN <<IF attr THEN "True" ELSE "False">>
                      ELSE attr)

\* sep.join(parts), parts a sequence of strings of any length
RECURSIVE JoinStrings(_, _)
JoinStrings(parts, sep) ==
    IF Len(parts) = 0 THEN <<>>
    ELSE IF Len(parts) = 1 THEN parts[1]
    ELSE parts[1] \o <<sep>> \o JoinStrings(Tail(parts), sep)

\* TestCase.__str__
str(tc) ==
    LET shown(name) == Truthy(name, tc[name])
        names == SelectSeq(getmembers(tc), shown)
    IN JoinStrings([k \in 1..Len(names) |-> NameValue(names[k], tc[names[k]])], ",")

\* the test cases pytest is given as parameters: what gen_testcases returns
\* for every scenario on every host, here also with signing switched on
CollectedTestCases ==
    LET generated == UNION {Range(gen_testcases(what, machine).value) :
                               what \in Scenarios, machine \in Machines}
    IN generated \cup {[tc EXCEPT !.sign = TRUE] : tc \in generated}

\* conftest.py, lines 19-22: the id of a parameter that is a TestCase
pytest_make_parametrize_id ==
    /\ config.pc = "collected"
    /\ config' = [config EXCEPT !.pc = "id", !.id = str(config.tc)]
    /\ UNCHANGED <<keyIn, keyOut, waitVars, buildVars, ec2, vmVars, genVars>>

\* testcases.py, lines 79-86
test_testcase_nameing ==
    /\ config.pc = "nameing"
    /\ LET expected == <<"container_ref", "=", "quay.io", "/", "fedora", "/",
                         "fedora-bootc:40", ",", "rootfs", "=", "btrfs">>
       IN config' = [config EXCEPT
                       !.pc = "asserted",
                       !.id = str(config.tc),
                       !.exc = IF str(config.tc) = expected
                               THEN "none" ELSE "AssertionError"]
    /\ UNCHANGED <<keyIn, keyOut, waitVars, buildVars, ec2, vmVars, genVars>>

InitId ==
    /\ config \in [pc : {"collected"}, tc : CollectedTestCases,
                   customizations : {<<>>}, exc : {"none"}, id : {<<>>}]
                 \cup {[NoConfig EXCEPT !.pc = "nameing", !.tc = TestCaseFedora]}
    /\ keyIn = NoKey
    /\ keyOut = NoOut
    /\ wait = IdleWait
    /\ prevWait = Summary(IdleWait)
    /\ BuildUnused
    /\ ec2 = NoCloud
    /\ VmUnused
    /\ GenUnused

NextId == pytest_make_parametrize_id \/ test_testcase_nameing

SpecId == InitId /\ [][NextId]_vars

(***************************************************************************)
(* Claims about build_images                                               *)
(***************************************************************************)

SingleDiskType(c) ==
    Len(c.image_types) = 1 /\ c.image_types[1] \in Range(DISK_IMAGE_TYPES)

AllExist(c) == \A k \in 1..Len(c.results) : c.results[k].img_path \in files

C6_PartialIsAssertion ==
    /\ call.pc = "yielded" => Len(call.results) = Len(call.image_types)
    /\ (0 < call.found /\ call.found < Len(call.image_types)) =>
          /\ call.pc = "failed"
          /\ call.error.type = "AssertionError"
          /\ call.results = <<>>
          /\ call.toolRuns = 0

\* C7 as stated: every yielded result has an img_path that exists.
C7_YieldedPathsExist == call.pc = "yielded" => AllExist(call)

\* C7 amended: results yielded from the cache have an img_path that exists;
\* of a fresh build the img_path exists if the build tool left the artifact,
\* build_images does not check it: it fails after a run of the tool only for a
\* non-zero return code or a missing AMI id, and the missing file is found by
\* the test that asserts img_path.exists().
C7_CachedExistFreshUnchecked ==
    /\ (call.pc = "yielded" /\ call.path = "cache") => AllExist(call)
    /\ (call.pc = "yielded" /\ call.path = "fresh") =>
          \A k \in 1..Len(call.results) :
             call.results[k].img_type \in call.produced =>
                call.results[k].img_path \in files
    /\ (call.pc = "failed" /\ call.toolRuns = 1) =>
          call.error.what \in {"return code", "no ami id"}
    /\ (call.pc = "yielded" /\ call.test = "failed") => ~AllExist(call)
    /\ (call.pc = "yielded" /\ call.test = "passed") => AllExist(call)

\* the tool exited 0 without the requested artifact, build_images yielded
C7_Witness ==
    /\ call.pc = "yielded" /\ call.path = "fresh"
    /\ call.toolRuns = 1 /\ call.rc = 0
    /\ call.image_types = <<"qcow2">>
    /\ call.results[1].img_path \notin files
    /\ call.test = "failed"

LogsIn(fs, dir) == {<<dir, journal_log_path>>, <<dir, bib_output_path>>} \cap fs

\* C8: a non-zero return code of the build tool ends build_images in an
\* AssertionError that carries the return code; no results are yielded, no
\* AMI deregistration callback is registered and the step leaves journal.log
\* and bib-output.log of the directory as they were.
C8_NonZeroRcFails ==
    /\ []((call.toolRuns = 1 /\ call.rc # 0) =>
            /\ call.pc = "failed"
            /\ call.error.type = "AssertionError"
            /\ call.error.what = "return code"
            /\ call.error.rc = call.rc
            /\ call.results = <<>>
            /\ ~call.registered
            /\ ~call.wroteLogs)
    /\ [][(call'.toolRuns = 1 /\ call'.rc # 0) =>
            /\ finalizers' = finalizers
            /\ LogsIn(files', call'.dir) = LogsIn(files, call'.dir)]_vars

C8_Witness ==
    /\ call.pc = "failed"
    /\ call.toolRuns = 1 /\ call.rc = 1
    /\ call.error = [type |-> "AssertionError", what |-> "return code", rc |-> 1]
    /\ "ami" \in Range(call.image_types)
    /\ call.upload
    /\ LogsIn(files, call.dir) = {}

WantsAmi(c) == "ami" \in Range(c.image_types)

\* C9: for a request with "ami" and no AWS credentials: with force_aws_upload
\* build_images raises RuntimeError and the build tool is never run; without
\* it the tool runs without upload arguments, no result carries an ami_id, no
\* deregistration callback is registered and test_ami_boots_in_aws is skipped.
C9_NoCredentials ==
    (WantsAmi(call) /\ ~session.creds /\ call.pc \notin {"idle", "build"}) =>
        IF session.force_aws_upload
        THEN /\ call.pc = "failed"
             /\ call.error.type = "RuntimeError"
             /\ call.toolRuns = 0
             /\ call.results = <<>>
        ELSE /\ call.toolRuns = 1
             /\ ~call.upload
             /\ ~call.registered
             /\ finalizers = 0
             /\ \A k \in 1..Len(call.results) : call.results[k].ami_id = "none"
             /\ call.test \in {"none", "skipped"}
             /\ call.pc = "done" => call.test = "skipped"

C9_Witness ==
    /\ WantsAmi(call) /\ ~session.creds /\ ~session.force_aws_upload
    /\ call.pc = "yielded"
    /\ call.toolRuns = 1 /\ call.rc = 0
    /\ call.test = "skipped"

\* the fixed artifact path of every image type
ArtifactTable ==
    ("qcow2" :> <<"qcow2", "disk.qcow2">>) @@ ("ami" :> <<"image", "disk.raw">>) @@
    ("raw" :> <<"image", "disk.raw">>) @@ ("vmdk" :> <<"vmdk", "disk.vmdk">>) @@
    ("vhd" :> <<"vpc", "disk.vhd">>) @@ ("gce" :> <<"gce", "image.tar.gz">>) @@
    ("anaconda-iso" :> <<"bootiso", "install.iso">>)

\* C10: a yield carries exactly one result per requested image type, in
\* request order, with that img_type and with the fixed artifact path of the
\* type inside the output directory; for qcow2+raw+vmdk the basenames are
\* disk.qcow2, disk.raw and disk.vmdk.
C10_OneResultPerType ==
    call.pc = "yielded" =>
        /\ Len(call.results) = Len(call.image_types)
        /\ \A k \in 1..Len(call.results) :
              /\ call.results[k].img_type = call.image_types[k]
              /\ call.results[k].img_path = <<call.dir, ArtifactTable[call.image_types[k]]>>
        /\ call.image_types = <<"qcow2", "raw", "vmdk">> =>
              [k \in 1..3 |-> call.results[k].img_path[2][2]] =
                  <<"disk.qcow2", "disk.raw", "disk.vmdk">>

C10_Witness ==
    /\ call.pc = "yielded"
    /\ call.path = "cache"
    /\ call.image_types = <<"qcow2", "raw", "vmdk">>
    /\ Len(call.results) = 3
    /\ AllExist(call)

\* C11 as stated: after a run of the build tool that exited 0 and registered
\* the image in the cloud, build_images has registered the deregistration
\* callback, whatever later step fails (the parsing of the AMI id included),
\* and once the fixture is torn down the callback has run.
C11_CallbackCoversRegisteredImage ==
    (call.toolRuns = 1 /\ call.rc = 0 /\ call.uploaded) =>
        /\ call.registered
        /\ (call.pc = "done" /\ finalizers = 0) => call.delAmiRan

\* C20 as stated: as long as every request is a generated test case, no
\* earlier request failed and every run of the build tool exited 0 and left
\* all the artifacts it was asked for, no request finds some but not all of its artifacts, and the
\* assertion on the number of results never fires; reclamation after a
\* yield is part of the runs.
C20_NoPartialCache ==
    call.regular =>
        /\ ~(0 < call.found /\ call.found < Len(call.image_types))
        /\ call.error.what # "unexpected number of results"

(***************************************************************************)
(* testcases.py: gen_testcases as test modules call it                     *)
(***************************************************************************)

\* names that are no scenario: the empty string, an image type, a scenario
\* name in another spelling
UnknownNames == {"", "ami", "ALL", "qemu_boot", "iso"}

\* @pytest.mark.parametrize("tc", gen_testcases(what)): one more call with
\* the same argument on the same host
gen_testcases_call ==
    /\ Len(gen.returns) < MaxCalls
    /\ gen' = [gen EXCEPT !.returns = Append(@, gen_testcases(gen.what, gen.machine))]
    /\ UNCHANGED <<waitVars, keyVars, buildVars, ec2, vmVars>>

InitGen ==
    /\ gen \in [what : Scenarios \cup UnknownNames, machine : Machines, returns : {<<>>}]
    /\ wait = IdleWait
    /\ prevWait = Summary(IdleWait)
    /\ keyIn = NoKey
    /\ keyOut = NoOut
    /\ config = NoConfig
    /\ BuildUnused
    /\ ec2 = NoCloud
    /\ VmUnused

NextGen == gen_testcases_call

SpecGen == InitGen /\ [][NextGen]_vars

\* C12: a gen_testcases call with a name outside the supported scenarios
\* raises a ValueError whose message contains the name, and returns no list.
C12_UnknownNameRaises ==
    \A k \in 1..Len(gen.returns) :
       gen.what \notin Scenarios =>
          /\ gen.returns[k].raised = "ValueError"
          /\ \E i \in 1..Len(gen.returns[k].message) :
                gen.returns[k].message[i] = gen.what
          /\ gen.returns[k].value = <<>>

\* an image type passed where a scenario is expected
C12_Witness ==
    /\ gen.what = "ami"
    /\ Len(gen.returns) = 1
    /\ gen.returns[1].raised = "ValueError"

\* C13 as stated: for every scenario and every host architecture the call
\* returns a non-empty list, and two calls return equal lists.
C13_NonEmptyEverywhere ==
    gen.what \in Scenarios =>
       /\ \A k \in 1..Len(gen.returns) :
             gen.returns[k].raised = "none" /\ Len(gen.returns[k].value) > 0
       /\ Len(gen.returns) = 2 => gen.returns[1] = gen.returns[2]

\* C13 amended: for every scenario other than "qemu-cross" the call returns
\* a non-empty list on every host; "qemu-cross" returns one test case on an
\* x86_64 host and the empty list on every other host; two calls with the
\* same name on the same host return equal lists in the same order.
C13_NonEmptyButCrossOffX86 ==
    gen.what \in Scenarios =>
       /\ \A k \in 1..Len(gen.returns) :
             /\ gen.returns[k].raised = "none"
             /\ (gen.what # "qemu-cross") => Len(gen.returns[k].value) > 0
             /\ (gen.what = "qemu-cross" /\ gen.machine = "x86_64") =>
                    Len(gen.returns[k].value) = 1
             /\ (gen.what = "qemu-cross" /\ gen.machine # "x86_64") =>
                    gen.returns[k].value = <<>>
       /\ Len(gen.returns) = 2 =>
             /\ Len(gen.returns[1].value) = Len(gen.returns[2].value)
             /\ \A i \in 1..Len(gen.returns[1].value) :
                   gen.returns[1].value[i] = gen.returns[2].value[i]

\* the cross-build scenario called twice on an ARM host
C13_Witness ==
    /\ gen.what = "qemu-cross"
    /\ gen.machine = "aarch64"
    /\ Len(gen.returns) = 2
    /\ gen.returns[2].value = <<>>

(***************************************************************************)
(* vm.py: VM, QEMU, AWS                                                    *)
(***************************************************************************)

\* get_free_port()
FreePorts == {2222, 2223}

\* QEMU.running: self._qemu_p is not None
QEMU_running_WhenReady(v) == v.qemu_p # 0 /\ v.observed
QEMU_running(v) == v.qemu_p # 0

\* AWS.running: self._ec2_instance is not None
AWS_running(v) == v.ec2_instance # "None"

running(v) == IF v.kind = "QEMU" THEN QEMU_running(v) ELSE AWS_running(v)

\* the wait_event arguments start() is called with: the default, the one
\* test_iso_installs passes, and one that is neither
WaitEvents == {"ssh", "qmp:RESET", "serial"}

\* how the part of start() before its wait can end
\*   no_ovmf                find_ovmf raises ValueError
\*   popen_OSError          subprocess.Popen raises
\*   sg_create_ClientError  create_security_group raises
\*   ingress_ClientError    authorize_ingress raises
\*   create_ClientError     create_instances raises
\*   launched               the process or the instance exists
LaunchOutcomes == {"no_ovmf", "popen_OSError", "sg_create_ClientError",
                   "ingress_ClientError", "create_ClientError", "launched"}

\* how the wait of start() can end
\*   ready        the readiness signal was seen
\*   ssh_refused  wait_ssh_ready raises ConnectionRefusedError
\*   no_socket    _wait_qmp_socket raises Exception
\*   not_running  wait_until_running raises WaiterError
WaitOutcomes == {"ready", "ssh_refused", "no_socket", "not_running"}

\* QEMU.start lines 115-155 up to the wait, for a handle that is not running
QEMU_launch(v, wait_event, use_ovmf, o, port) ==
    LET chosen == [v EXCEPT !.ssh_port = port, !.address = "localhost",
                            !.observed = FALSE, !.wait_event = wait_event]
        spawned == [chosen EXCEPT !.qemu_p = 1, !.procs = @ \cup {1}]
    IN IF use_ovmf /\ o = "no_ovmf"
       THEN [chosen EXCEPT !.exc = "ValueError"]
       ELSE IF o = "popen_OSError"
       THEN [chosen EXCEPT !.exc = "OSError"]
       ELSE IF wait_event \in {"ssh", "qmp:RESET"}
       THEN [spawned EXCEPT !.pc = "waiting", !.exc = "none"]
       ELSE [spawned EXCEPT !.exc = "ValueError"]

\* AWS.start lines 202-215 and _set_ssh_security_group, up to the wait
AWS_launch(v, o) ==
    LET grouped == [v EXCEPT !.ec2_security_group = "sg-1", !.observed = FALSE,
                             !.ingress = IF v.ec2_security_group = "None"
                                         THEN o # "ingress_ClientError"
                                         ELSE v.ingress]
    IN IF v.ec2_security_group = "None" /\ o = "sg_create_ClientError"
       THEN [v EXCEPT !.exc = "ClientError", !.observed = FALSE]
       ELSE IF v.ec2_security_group = "None" /\ o = "ingress_ClientError"
       THEN [grouped EXCEPT !.exc = "ClientError"]
       ELSE IF o = "create_ClientError"
       THEN [grouped EXCEPT !.exc = "ClientError"]
       ELSE [grouped EXCEPT !.ec2_instance = "i-1", !.pc = "waiting", !.exc = "none"]

\* the outcomes each variant of the launch can have
LaunchApplies(v, use_ovmf, o) ==
    IF v.kind = "QEMU"
    THEN o \in {"popen_OSError", "launched"} \/ (use_ovmf /\ o = "no_ovmf")
    ELSE \/ o \in {"create_ClientError", "launched"}
         \/ (v.ec2_security_group = "None"
               /\ o \in {"sg_create_ClientError", "ingress_ClientError"})

\* what the launch leaves in the cloud account
CloudAfterLaunch(v) ==
    [ec2 EXCEPT !.groups = IF v.ec2_security_group = "None" THEN @ ELSE @ \cup {"sg-1"},
                !.instances = IF v.ec2_instance = "None" THEN @ ELSE @ \cup {"i-1"}]

\* a method can be called: no call is in progress, and in a with body no
\* exception is on its way out of it
Callable ==
    /\ vm.kind # "none"
    /\ vm.pc = "ready"
    /\ vm.scope = "in" => vm.exc = "none"

\* VM.start(), called by the test or by run(), on a handle v
start(v, caller, wait_event, use_ovmf, o, port) ==
    IF running(v)
    THEN [v EXCEPT !.exc = "none"]
    ELSE IF v.kind = "QEMU"
    THEN [QEMU_launch(v, wait_event, use_ovmf, o, port) EXCEPT !.caller = caller]
    ELSE [AWS_launch(v, o) EXCEPT !.caller = caller]

\* the test calls vm.start(...); AWS.start takes no arguments
vm_start(wait_event, use_ovmf, o, port) ==
    /\ Callable
    /\ vm.scope # "left"
    /\ LaunchApplies(vm, use_ovmf, o)
    /\ vm.kind = "AWS" => (wait_event = "ssh" /\ ~use_ovmf)
    /\ vm' = [start(vm, "start", wait_event, use_ovmf, o, port) EXCEPT !.op = "start"]
    /\ ec2' = CloudAfterLaunch(vm')
    /\ UNCHANGED <<waitVars, keyVars, buildVars, genVars>>

\* VM.run lines 49-68 after start(): r is how the SSH session goes
ssh_session(v, r) == [v EXCEPT !.exc = IF r = "ok" THEN "none" ELSE "SSHException"]

\* the test calls vm.run(cmd, user, password)
vm_run(o, port, r) ==
    /\ Callable
    /\ vm.scope # "left"
    /\ LaunchApplies(vm, FALSE, o)
    /\ LET started == start(vm, "run", "ssh", FALSE, o, port)
       IN vm' = [(IF started.pc = "ready" /\ started.exc = "none"
                  THEN ssh_session(started, r)
                  ELSE started) EXCEPT !.op = "run"]
    /\ ec2' = CloudAfterLaunch(vm')
    /\ UNCHANGED <<waitVars, keyVars, buildVars, genVars>>

\* VM.wait_ssh_ready: wait_ssh_ready(..., sleep=1, max_wait_sec=600)
SshSleep == 1
SshMaxWaitSec == 600

\* QEMU.wait_qmp_event: self._wait_qmp_socket(30)
QmpSocketTimeoutSec == 30

\* the wait is that of wait_qmp_event
WaitsForQmp(v) == v.kind = "QEMU" /\ v.wait_event = "qmp:RESET"

\* the passes the polling loop of the wait makes at most:
\* range(int(max_wait_sec / sleep)) or range(timeout_sec)
WaitBudget(v) ==
    IF WaitsForQmp(v) THEN QmpSocketTimeoutSec
    ELSE RangeLen(SshSleep, SshMaxWaitSec)

\* one pass of the polling loop that did not end the wait: wait_ssh_ready
\* got no banner and slept, or _wait_qmp_socket saw no socket and slept
vm_wait_poll ==
    /\ vm.kind # "none"
    /\ vm.pc = "waiting"
    /\ ~vm.mon
    /\ vm.polls < WaitBudget(vm)
    /\ vm' = [vm EXCEPT !.polls = @ + 1]
    /\ UNCHANGED <<ec2, waitVars, keyVars, buildVars, genVars>>

\* wait_qmp_event lines 167-169: a pass of _wait_qmp_socket saw the socket
\* and the monitor connected
vm_qmp_connect ==
    /\ WaitsForQmp(vm)
    /\ vm.pc = "waiting"
    /\ ~vm.mon
    /\ vm.polls < WaitBudget(vm)
    /\ vm' = [vm EXCEPT !.mon = TRUE]
    /\ UNCHANGED <<ec2, waitVars, keyVars, buildVars, genVars>>

\* wait_qmp_event lines 170-174: pull_event returned an event that is not
\* the one waited for, and the loop goes round; the loop has no limit, the
\* model follows it for MaxEvents events
vm_qmp_other_event ==
    /\ WaitsForQmp(vm)
    /\ vm.pc = "waiting"
    /\ vm.mon
    /\ vm.events < MaxEvents
    /\ vm' = [vm EXCEPT !.events = @ + 1]
    /\ UNCHANGED <<ec2, waitVars, keyVars, buildVars, genVars>>

\* the outcomes the wait of each variant can have, and when: readiness is
\* seen in a pass of the polling loop or as a QMP event, the errors of the
\* loops are raised when their passes are used up, wait_until_running
\* comes before wait_ssh_ready
WaitApplies(v, o) ==
    IF v.kind = "AWS"
    THEN \/ o = "ready" /\ v.polls < WaitBudget(v)
         \/ o = "ssh_refused" /\ v.polls = WaitBudget(v)
         \/ o = "not_running" /\ v.polls = 0
    ELSE IF v.wait_event = "ssh"
    THEN \/ o = "ready" /\ v.polls < WaitBudget(v)
         \/ o = "ssh_refused" /\ v.polls = WaitBudget(v)
    ELSE \/ o = "ready" /\ v.mon
         \/ o = "no_socket" /\ ~v.mon /\ v.polls = WaitBudget(v)

\* the wait of start() ends: QEMU lines 146-153, AWS lines 216-221; if run()
\* had called start() it goes on with its SSH session
vm_start_wait(o, r) ==
    /\ vm.kind # "none"
    /\ vm.pc = "waiting"
    /\ WaitApplies(vm, o)
    /\ LET located == IF vm.kind = "AWS" /\ o \in {"ready", "ssh_refused"}
                      THEN [vm EXCEPT !.address = "ip"]
                      ELSE vm
           back == [located EXCEPT !.pc = "ready", !.polls = 0, !.mon = FALSE,
                                   !.events = 0]
       IN vm' = IF o = "ready"
                THEN IF vm.caller = "run"
                     THEN ssh_session([back EXCEPT !.observed = TRUE], r)
                     ELSE [back EXCEPT !.observed = TRUE, !.exc = "none"]
                ELSE [back EXCEPT !.exc =
                        CASE o = "ssh_refused" -> "ConnectionRefusedError"
                          [] o = "not_running" -> "WaiterError"
                          [] OTHER -> "Exception"]
    /\ UNCHANGED <<ec2, waitVars, keyVars, buildVars, genVars>>

\* QEMU.force_stop
QEMU_force_stop_Unguarded(v) ==
    [v EXCEPT !.procs = @ \ {v.qemu_p}, !.qemu_p = 0,
              !.address = "None", !.ssh_port = 0, !.observed = FALSE,
              !.stop.requests = {"kill"}, !.stop.order = <<"kill">>]
QEMU_force_stop(v) ==
    IF v.qemu_p # 0
    THEN [v EXCEPT !.procs = @ \ {v.qemu_p}, !.qemu_p = 0,
                   !.address = "None", !.ssh_port = 0, !.observed = FALSE,
                   !.stop.requests = {"kill"}, !.stop.order = <<"kill">>]
    ELSE v

\* the exception the termination step lets through: except ClientError
\* catches the error of terminate(); wait_until_terminated raises a
\* WaiterError, which is no ClientError
Propagates_Nothing(t) == FALSE
Propagates(t) == t = "wait_WaiterError"

\* AWS.force_stop lines 255-268: t is how terminate() and the wait go
AWS_terminate_KeepsAddress(v, t) ==
    IF v.ec2_instance # "None"
    THEN LET asked == [v EXCEPT !.stop.requests = @ \cup {"terminate"},
                                !.stop.order = Append(@, "terminate"),
                                !.stop.termination = t]
         IN IF t = "ok"
            THEN [asked EXCEPT !.ec2_instance = "None", !.observed = FALSE]
            ELSE IF Propagates(t)
            THEN [asked EXCEPT !.stop.raised = "WaiterError"]
            ELSE asked
    ELSE v
AWS_terminate(v, t) ==
    IF v.ec2_instance # "None"
    THEN LET asked == [v EXCEPT !.stop.requests = @ \cup {"terminate"},
                                !.stop.order = Append(@, "terminate"),
                                !.stop.termination = t]
         IN IF t = "ok"
            THEN [asked EXCEPT !.ec2_instance = "None", !.address = "None",
                               !.observed = FALSE]
            ELSE IF Propagates(t)
            THEN [asked EXCEPT !.stop.raised = "WaiterError"]
            ELSE asked
    ELSE v

\* AWS.force_stop lines 270-281: d is how delete() goes
AWS_delete(v, d) ==
    IF v.ec2_security_group # "None"
    THEN LET asked == [v EXCEPT !.stop.requests = @ \cup {"delete"},
                                !.stop.order = Append(@, "delete"),
                                !.stop.deletion = d]
         IN IF d = "ok"
            THEN [asked EXCEPT !.ec2_security_group = "None", !.ingress = FALSE]
            ELSE asked
    ELSE v

AWS_force_stop(v, t, d) ==
    LET terminated == AWS_terminate(v, t)
    IN IF terminated.stop.raised # "none"
       THEN terminated
       ELSE AWS_delete(terminated, d)

\* the fields of a handle
Fields(v) == <<v.ssh_port, v.address, v.qemu_p, v.ec2_instance, v.ec2_security_group>>

\* force_stop() on a handle v, with the record of what it did
force_stop(v, t, d) ==
    LET enter == [v EXCEPT !.stop = [NoStop EXCEPT
                      !.again = v.op \in {"force_stop", "exit"}
                                  /\ v.stop.raised = "none" /\ ~running(v),
                      !.had_group = v.ec2_security_group # "None",
                      !.had_instance = v.ec2_instance # "None"]]
        left == IF v.kind = "QEMU" THEN QEMU_force_stop(enter)
                ELSE AWS_force_stop(enter, t, d)
    IN [left EXCEPT !.stop.changed = Fields(left) # Fields(v) \/ left.procs # v.procs
                                       \/ left.stop.requests # {}]

\* the account after force_stop: an instance whose terminate() was accepted
\* and a group whose delete() was accepted are gone
CloudAfterStop(v) ==
    [ec2 EXCEPT !.instances = IF v.stop.termination = "ok" THEN @ \ {"i-1"} ELSE @,
                !.groups = IF v.stop.deletion = "ok" THEN @ \ {"sg-1"} ELSE @]

\* the outcomes that are told apart: those of a step that is reached
StopApplies(v, t, d) ==
    /\ (v.kind = "QEMU" \/ v.ec2_instance = "None") => t = "ok"
    /\ (v.kind = "QEMU" \/ v.ec2_security_group = "None"
          \/ (v.ec2_instance # "None" /\ Propagates(t))) => d = "ok"

\* the test calls vm.force_stop(), or __del__ does once the handle is dropped
vm_force_stop(t, d) ==
    /\ Callable
    /\ StopApplies(vm, t, d)
    /\ LET stopped == force_stop(vm, t, d)
       IN vm' = [stopped EXCEPT !.op = "force_stop", !.exc = stopped.stop.raised]
    /\ ec2' = CloudAfterStop(vm')
    /\ UNCHANGED <<waitVars, keyVars, buildVars, genVars>>

\* VM.__exit__: the with body has ended, by its last statement or by the
\* exception in exc; force_stop() is called and the scope is left
vm_exit_OnlyWithoutException(t, d) ==
    /\ vm.kind # "none"
    /\ vm.pc = "ready"
    /\ vm.scope = "in"
    /\ StopApplies(vm, t, d)
    /\ LET stopped == IF vm.exc = "none" THEN force_stop(vm, t, d) ELSE vm
       IN vm' = [stopped EXCEPT !.op = "exit", !.scope = "left",
                                !.exc = IF stopped.stop.raised # "none"
                                        THEN stopped.stop.raised ELSE vm.exc]
    /\ ec2' = CloudAfterStop(vm')
    /\ UNCHANGED <<waitVars, keyVars, buildVars, genVars>>
vm_exit(t, d) ==
    /\ vm.kind # "none"
    /\ vm.pc = "ready"
    /\ vm.scope = "in"
    /\ StopApplies(vm, t, d)
    /\ LET stopped == force_stop(vm, t, d)
       IN vm' = [stopped EXCEPT !.op = "exit", !.scope = "left",
                                !.exc = IF stopped.stop.raised # "none"
                                        THEN stopped.stop.raised ELSE vm.exc]
    /\ ec2' = CloudAfterStop(vm')
    /\ UNCHANGED <<waitVars, keyVars, buildVars, genVars>>

\* a handle right after construction, used with or without a with statement
InitVM ==
    /\ vm \in {NewVM(kind, scope) : kind \in {"QEMU", "AWS"}, scope \in {"none", "in"}}
    /\ ec2 = NoCloud
    /\ wait = IdleWait
    /\ prevWait = Summary(IdleWait)
    /\ keyIn = NoKey
    /\ keyOut = NoOut
    /\ config = NoConfig
    /\ BuildUnused
    /\ GenUnused

NextVM ==
    \/ \E wait_event \in WaitEvents, use_ovmf \in BOOLEAN,
          o \in LaunchOutcomes, port \in FreePorts :
          vm_start(wait_event, use_ovmf, o, port)
    \/ \E o \in LaunchOutcomes, port \in FreePorts, r \in {"ok", "error"} :
          vm_run(o, port, r)
    \/ vm_wait_poll
    \/ vm_qmp_connect
    \/ vm_qmp_other_event
    \/ \E o \in WaitOutcomes, r \in {"ok", "error"} : vm_start_wait(o, r)
    \/ \E t \in {"ok", "terminate_ClientError", "wait_WaiterError"},
          d \in {"ok", "delete_ClientError"} : vm_force_stop(t, d)
    \/ \E t \in {"ok", "terminate_ClientError", "wait_WaiterError"},
          d \in {"ok", "delete_ClientError"} : vm_exit(t, d)

SpecVM == InitVM /\ [][NextVM]_vars

(***************************************************************************)
(* Claims about VM handles                                                 *)
(***************************************************************************)

\* the last call was a force_stop, by the test, by __del__ or by __exit__
Stopped == vm.op \in {"force_stop", "exit"}

\* C14 as stated: force_stop called again on a handle that an earlier
\* force_stop had left stopped changes no field, kills no process and sends
\* no terminate and no delete request, for both variants.
C14_SecondStopDoesNothing ==
    (Stopped /\ vm.stop.again) => ~vm.stop.changed

\* C14 amended: force_stop called again on a stopped QEMU handle changes
\* nothing and kills nothing; called again on a stopped AWS handle it sends no
\* terminate request, and it changes nothing and sends nothing if the handle
\* holds no security group; if the handle still holds one (its deletion had
\* failed) it sends the delete request again.
C14_SecondStopOnlyRetriesGroup ==
    (Stopped /\ vm.stop.again) =>
        /\ vm.kind = "QEMU" => ~vm.stop.changed
        /\ vm.kind = "AWS" =>
              /\ "terminate" \notin vm.stop.requests
              /\ vm.stop.had_group => vm.stop.requests = {"delete"}
              /\ ~vm.stop.had_group => ~vm.stop.changed

\* a second force_stop deletes the group the first one could not delete
C14_Witness ==
    /\ vm.kind = "AWS"
    /\ Stopped /\ vm.stop.again
    /\ vm.stop.had_group
    /\ vm.stop.deletion = "ok"
    /\ vm.ec2_security_group = "None"

\* C15 as stated: address and SSH port of a handle are set only while
\* running() is true; whenever running() is false both are unset.
C15_SetOnlyWhileRunning ==
    ~running(vm) => (vm.address = "None" /\ vm.ssh_port = 0)

\* C15 amended: a QEMU handle has both set whenever running() is true and
\* has them set or unset together; a start() that failed before the
\* emulator was spawned leaves them set while running() is false.  An AWS
\* handle has port 22 from construction on; its address is set only while
\* running() is true.
C15_QemuPairedAwsPortFixed ==
    /\ vm.kind = "QEMU" =>
          /\ running(vm) => (vm.address = "localhost" /\ vm.ssh_port \in FreePorts)
          /\ (vm.address = "None") <=> (vm.ssh_port = 0)
          /\ (~running(vm) /\ vm.ssh_port # 0) => ~Stopped \/ ~vm.stop.changed
    /\ vm.kind = "AWS" =>
          /\ vm.ssh_port = 22
          /\ vm.address # "None" => running(vm)

\* start() of a QEMU handle failed in find_ovmf or Popen
C15_Witness ==
    /\ vm.kind = "QEMU"
    /\ vm.op = "start"
    /\ vm.exc \in {"ValueError", "OSError"}
    /\ ~running(vm)
    /\ vm.ssh_port # 0
    /\ vm.address = "localhost"

\* C16 as stated: running() is true only after start() has seen the
\* readiness signal.
C16_RunningOnlyWhenReady == running(vm) => vm.observed

\* C16 amended: running() is true from the moment start() has spawned the
\* emulator or created the instance: while start() waits for readiness, and
\* after the wait has failed, until force_stop; a handle whose start() has
\* seen the readiness signal is running.
C16_RunningFromLaunch ==
    /\ vm.pc = "waiting" => (running(vm) /\ ~vm.observed)
    /\ vm.observed => running(vm)
    /\ (vm.op \in {"start", "run"} /\ vm.pc = "ready"
          /\ vm.exc \in {"ConnectionRefusedError", "WaiterError", "Exception"}) =>
              (running(vm) /\ ~vm.observed)

\* the wait for SSH of start() has run out
C16_Witness ==
    /\ vm.op = "start"
    /\ vm.pc = "ready"
    /\ vm.exc = "ConnectionRefusedError"
    /\ running(vm)
    /\ ~vm.observed

\* C17: once the with scope of a handle is left, by the end of its body or by
\* an exception (of start() or run() too), force_stop has been called: a QEMU
\* handle holds no process, no emulator process is alive and running() is
\* false; an AWS handle has been asked to terminate the instance it held.
C17_LeftScopeIsStopped ==
    vm.scope = "left" =>
        /\ vm.kind = "QEMU" => (vm.qemu_p = 0 /\ vm.procs = {} /\ ~running(vm))
        /\ (vm.kind = "AWS" /\ vm.op = "exit" /\ running(vm)) =>
               "terminate" \in vm.stop.requests

\* the scope was left by the exception of a start() whose wait ran out
C17_Witness ==
    /\ vm.kind = "QEMU"
    /\ vm.scope = "left"
    /\ vm.op = "exit"
    /\ vm.exc = "ConnectionRefusedError"
    /\ vm.stop.requests = {"kill"}
    /\ vm.procs = {}

\* C18 as stated: however the termination step of AWS.force_stop ends, by an
\* error of terminate() or of the wait, the deletion of a held security
\* group is attempted; and a deletion that fails leaves a termination that
\* went through in place.
C18_StepsIndependent ==
    (vm.kind = "AWS" /\ Stopped) =>
        /\ (vm.stop.termination # "none" /\ vm.stop.had_group) =>
               "delete" \in vm.stop.requests
        /\ (vm.stop.termination = "ok" /\ vm.stop.deletion = "delete_ClientError") =>
               (vm.ec2_instance = "None" /\ "i-1" \notin ec2.instances)

\* C19 as stated: once the with scope of an AWS handle is left, however the
\* test went, neither the instance nor the security group of the handle
\* exists in the account.
C19_NothingLeftInCloud ==
    (vm.kind = "AWS" /\ vm.scope = "left") =>
        (ec2.instances = {} /\ ec2.groups = {})

\* C21 as stated: an AWS handle holds an instance only if it holds a
\* security group whose SSH ingress rule was authorized before the instance
\* was created; and a force_stop on a handle that held an instance asks for
\* the deletion of the group only after it has asked for the termination.
C21_GroupReadyBeforeInstance ==
    vm.kind = "AWS" =>
        /\ vm.ec2_instance # "None" =>
               (vm.ec2_security_group # "None" /\ vm.ingress)
        /\ (Stopped /\ vm.stop.had_instance /\ "delete" \in vm.stop.requests) =>
               vm.stop.order = <<"terminate", "delete">>

\* C22 as stated: every wait of start() ends after a bounded number of
\* polls or events: a wait in progress has made no more passes of its
\* polling loop than the loop has, and has not yet pulled as many QMP events
\* as the bound up to which the event loop is followed.
C22_WaitsAreBounded ==
    vm.pc = "waiting" =>
        /\ vm.polls <= WaitBudget(vm)
        /\ vm.events < MaxEvents

\* C30 as stated, in its part about the process: a QEMU.start with a
\* wait_event that is neither "ssh" nor "qmp:<event>" which ended in
\* ValueError has left the handle stopped, with no emulator process held or
\* alive.
C30_BadWaitEventLeavesStopped ==
    (/\ vm.kind = "QEMU"
     /\ vm.op = "start"
     /\ vm.wait_event \notin {"ssh", "qmp:RESET"}
     /\ vm.exc = "ValueError") =>
        (~running(vm) /\ vm.qemu_p = 0 /\ vm.procs = {})

C25_FilesystemXorDisk ==
    LET keys == DOMAIN config.customizations
        set == config.tc.disk_config # <<>>
        known == config.tc.disk_config \in {<<"lvm">>, <<"btrfs">>, <<"swap">>}
    IN /\ config.pc = "raised" => (set /\ ~known)
       /\ config.pc = "disk" =>
             /\ set => known
             /\ ("disk" \in keys) # ("filesystem" \in keys)
             /\ ("disk" \in keys) <=> set

\* both kinds of configuration were made and one was refused: shown here is
\* the one of an lvm test case, with its disk entry and no filesystem entry
C25_Witness ==
    /\ config.pc = "disk"
    /\ config.tc.disk_config = <<"lvm">>
    /\ "disk" \in DOMAIN config.customizations
    /\ "filesystem" \notin DOMAIN config.customizations
    /\ config.customizations["disk"] = <<"lvm">>

\* the names of the entries of a comma-joined id, in the order they have there
EntryNames(id) ==
    IF id = <<>> THEN <<>>
    ELSE [k \in 1..Len(Split(id, ",")) |-> Split(id, ",")[k][1]]

\* C26 as stated: the id of a test case has one name=value entry for every
\* data field with a non-empty value and no other entry, the entries stand
\* in the alphabetical order of the names, and the id of TestCaseFedora()
\* has the entries of container_ref and rootfs only.
C26_IdOfNonEmptyFieldsSorted ==
    config.pc \in {"id", "asserted"} =>
        LET tc == config.tc
            parts == IF config.id = <<>> THEN <<>> ELSE Split(config.id, ",")
            names == EntryNames(config.id)
        IN /\ Range(names) = {n \in DOMAIN tc : Truthy(n, tc[n])}
           /\ \A k \in 1..Len(parts) : parts[k] = NameValue(names[k], tc[names[k]])
           /\ \A j, k \in 1..Len(names) :
                 j < k => StrLess(Spelling(names[j]), Spelling(names[k]))
           /\ tc = TestCaseFedora => names = <<"container_ref", "rootfs">>

\* C27 as stated: the username and password of every yielded result are the
\* ones of the configuration of the build that wrote the artifact the result
\* points to, after a cache hit as well as after a fresh build.
C27_CredentialsOfProducingBuild ==
    call.pc = "yielded" =>
        \A k \in 1..Len(call.results) :
            LET r == call.results[k]
            IN r.img_path \in DOMAIN origin =>
                  /\ r.username = origin[r.img_path].username
                  /\ r.password = origin[r.img_path].password

\* the cloud upload a request asks for: lines 441-451
RequestsUpload(tc) == "ami" \in Range(RequestTypes[tc]) /\ write_aws_creds

\* C28 as stated: a cached artifact is only returned for a request with the
\* build container, root file system, librepo switch and cloud upload of the
\* build that wrote it, so that the build_container_ref and rootfs of a
\* result say how its artifact was built.
C28_CacheHitOnlyForSameBuild ==
    (call.pc = "yielded" /\ call.path = "cache") =>
        \A k \in 1..Len(call.results) :
            LET r == call.results[k]
                o == origin[r.img_path]
            IN /\ o.build_container_ref = call.tc.build_container_ref
               /\ o.rootfs = call.tc.rootfs
               /\ o.use_librepo = call.tc.use_librepo
               /\ o.upload = RequestsUpload(call.tc)
               /\ r.build_container_ref = o.build_container_ref
               /\ r.rootfs = o.rootfs

\* C29 as stated: in no output directory is there an artifact the cache
\* check looks for without journal.log and bib-output.log next to it, and no
\* call fails reading the logs of a cache hit.
C29_ArtifactsHaveLogs ==
    /\ \A f \in files :
          f[2] \in {artifact(t) : t \in Range(AllImages) \ Range(CLOUD_BOOT_IMAGE_TYPES)} =>
              /\ Exists(f[1], journal_log_path)
              /\ Exists(f[1], bib_output_path)
    /\ ~(call.pc = "failed" /\ call.error.type = "FileNotFoundError")

\* C24 as stated: for one shared directory and one test case, a call of
\* build_images in another process or session computes the same output
\* directory, and so the same artifact paths, as a call in this one.
C24_SameDirInEveryProcess ==
    keyOut.done => keyOut.d1b = keyOut.d1
====
